---- MODULE Spec2Model ----
(***************************************************************************)
(* Model of the MQTT sensor pipeline: the subscriber process               *)
(* (mqtt_subscriber.py) that writes every reading to MongoDB and then to   *)
(* a Redis list, and the FastAPI process (main.py) whose last-ten endpoint *)
(* reads that list cache-aside.  MongoDB and Redis are servers shared by   *)
(* the two processes: every command sent to them is one atomic step, and   *)
(* the steps of the two processes interleave.  Spec is the subscriber with *)
(* the last-ten endpoint; SpecRange is the subscriber with the time-range  *)
(* endpoint and a clock.                                                   *)
(***************************************************************************)
EXTENDS Integers, Sequences, FiniteSets, TLC

(***************************************************************************)
(* Bounds of the model.                                                    *)
(***************************************************************************)
\* readings an earlier run of the subscriber left in MongoDB and Redis
MaxWarm == 10
\* messages delivered to the subscriber
MaxMsgs == 2
\* last-ten requests that arrive together at the API
MaxRequests == 2
\* the timestamp of a reading that arrives late
LateTime == 3

(***************************************************************************)
(* Program constants.                                                      *)
(***************************************************************************)
REDIS_KEY == "latest_readings:"
REDIS_PREFIX == "latest_readings:"
REDIS_LIMIT == 10

\* client.subscribe(...) in main() of the subscriber
SUBSCRIBED == {"sensors/temperature", "sensors/humidity"}

\* values of the sensor query parameter of /last_ten_readings/
Sensors == {"temperature", "sensors/humidity"}

Keys == {REDIS_KEY \o t : t \in SUBSCRIBED} \cup {REDIS_PREFIX \o s : s \in Sensors}

Min(a, b) == IF a < b THEN a ELSE b

(***************************************************************************)
(* Conversions.  A JSON text is <<"json", obj>>; any other payload is not  *)
(* JSON.  A timestamp is an integer instant t; datetime.isoformat() gives  *)
(* <<"iso", t>> and str(datetime) gives <<"str", t>>.                      *)
(***************************************************************************)
JsonDumps(obj) == <<"json", obj>>
IsJson(text) == text[1] = "json"
JsonLoads(text) == text[2]

IsoFormat(t) == <<"iso", t>>
StrDatetime(t) == <<"str", t>>
ParseDatetime(s) == s[2]

\* pydantic validation of SensorReading(sensorId=data.get("sensor_id"), **data)
RequiredFields == {"sensor_id", "topic", "value", "timestamp"}
Validates(data) == RequiredFields \subseteq DOMAIN data

\* SensorReading(...) with the default_factory id
SensorReading(data, oid) ==
    [id |-> oid, sensor_id |-> data.sensor_id, topic |-> data.topic,
     value |-> data.value, timestamp |-> ParseDatetime(data.timestamp)]

\* SensorReading.to_bson
to_bson(r) ==
    [_id |-> r.id, sensorId |-> r.sensor_id, topic |-> r.topic,
     value |-> r.value, timestamp |-> r.timestamp]

\* SensorReading.from_bson
from_bson(doc) ==
    [id |-> doc._id, sensor_id |-> doc.sensorId, topic |-> doc.topic,
     value |-> doc.value, timestamp |-> doc.timestamp]

\* SensorReading.as_response: model_dump(by_alias=True); the isoformat branch
\* never runs (type(value) is the field's FieldInfo), the datetime stays
as_response(r) ==
    [id |-> r.id, sensorId |-> r.sensor_id, topic |-> r.topic,
     value |-> r.value, timestamp |-> r.timestamp]

(***************************************************************************)
(* MongoDB and Redis commands.                                             *)
(***************************************************************************)
InsertOne(coll, doc) == Append(coll, doc)

\* a push at the tail of the list
RPush(list, e) == Append(list, e)

LPush(list, e) == <<e>> \o list
LRange(list, start, stop) == SubSeq(list, start + 1, Min(stop + 1, Len(list)))
LTrim(list, start, stop) == SubSeq(list, start + 1, Min(stop + 1, Len(list)))

\* the positions of the documents of a collection matching {"topic": sensor}
Matching(coll, sensor) == {i \in 1..Len(coll) : coll[i].topic = sensor}

Newest(coll, S) == {i \in S : \A j \in S : coll[j].timestamp <= coll[i].timestamp}

\* find(...).sort("timestamp", -1).limit(n): every order MongoDB may return;
\* documents with equal timestamps come in any order
RECURSIVE SortDescLimit(_, _, _)
SortDescLimit(coll, S, n) ==
    IF S = {} \/ n = 0 THEN {<<>>}
    ELSE UNION {{<<coll[i]>> \o rest : rest \in SortDescLimit(coll, S \ {i}, n - 1)} :
                i \in Newest(coll, S)}

\* the query without its sort: the first n matching documents in natural order
FindUnsorted(coll, sensor, n) ==
    LET S == Matching(coll, sensor)
        Nth[k \in 1..Cardinality(S)] ==
            CHOOSE i \in S : Cardinality({j \in S : j < i}) = k - 1
    IN {[k \in 1..Min(n, Cardinality(S)) |-> coll[Nth[k]]]}

FindLatest(coll, sensor, n) == SortDescLimit(coll, Matching(coll, sensor), n)

\* a range filter that leaves the bounds out
FindRangeExclusive(coll, start, end) ==
    SelectSeq(coll, LAMBDA doc : start < doc.timestamp /\ doc.timestamp < end)

\* find({"timestamp": {"$gte": start, "$lte": end}}), in natural order
FindRange(coll, start, end) ==
    SelectSeq(coll, LAMBDA doc : start <= doc.timestamp /\ doc.timestamp <= end)

(***************************************************************************)
(* Messages on the broker.                                                 *)
(***************************************************************************)
ReadingData(sid, tp, t) ==
    [sensor_id |-> sid, topic |-> tp, value |-> 21, timestamp |-> IsoFormat(t)]

Msg(channel, payload) == [topic |-> channel, payload |-> payload]

\* an instant later than every reading of the earlier run
NewTime == MaxWarm + 2

\* the messages the broker may deliver: a temperature reading as the publisher
\* sends it, late or new; a reading whose topic field is the MQTT topic it
\* came on; a payload that is not JSON; a JSON object without topic, value
\* and timestamp
Messages ==
    {Msg("sensors/temperature", JsonDumps(ReadingData("temp-1", "temperature", t))) :
        t \in {LateTime, NewTime}}
    \cup {Msg("sensors/humidity", JsonDumps(ReadingData("hum-1", "sensors/humidity", NewTime))),
          Msg("sensors/temperature", <<"raw", "not json">>),
          Msg("sensors/humidity", JsonDumps([sensor_id |-> "hum-1"]))}

\* the i-th message of the publisher's temperature stream
WarmMsg(i) == Msg("sensors/temperature", JsonDumps(ReadingData("temp-1", "temperature", i)))

VARIABLES
    store,        \* the sensor_readings collection, in insertion order
    cache,        \* the Redis lists, by key
    cpc,          \* subscriber: "idle", "inserted", "pushed", "crashed"
    cmsg,         \* subscriber: the message in on_message, or the last one
    coutcome,     \* subscriber: how the last on_message ended
    delivered,    \* subscriber: messages received
    attempts,     \* subscriber: insert_one calls made for cmsg
    requested,    \* API: last-ten requests received
    pending,      \* API: requests of the burst not yet answered
    qsensor,      \* API: the sensor parameter of the burst
    qpc,          \* API: "idle", "miss", "push", "trim", "done"
    qreadings,    \* API: cached_readings of the running handler
    qi,           \* API: position of the for loop in cached_readings
    qresult,      \* API: what the handler returned
    qmiss,        \* API: the running handler took the cache-miss branch
    qclean,       \* API: no subscriber step since the running handler started
    finds,        \* API: collection.find calls made for the burst
    burstEmpty,   \* API: the burst arrived at an empty cache list
    serial,       \* no step of one process has fallen inside a handler of the other
    failed,       \* a MongoDB or Redis command has raised, or a payload was bad
    now,          \* the clock: what datetime.utcnow() returns
    enddefault,   \* API: the default of the end parameter of get_sensor_readings
    rstart,       \* API: the start parameter of the last time-range request
    rend,         \* API: its end parameter, Omitted when the request had none
    rresult       \* API: how get_sensor_readings answered it

cvars == <<cpc, cmsg, coutcome, delivered, attempts>>
qvars == <<requested, pending, qsensor, qpc, qreadings, qi, qresult, qmiss, finds, burstEmpty>>
rvars == <<now, enddefault, rstart, rend, rresult>>
vars == <<store, cache, cvars, qvars, qclean, serial, failed, rvars>>

NoMsg == Msg("", <<"raw", "">>)
None == [status |-> "none", body |-> <<>>]
Returned(body) == [status |-> "ok", body |-> body]
\* raise HTTPException(status_code=500, detail="Internal server error")
HTTPException(status_code) == [status |-> "raised", body |-> <<>>, status_code |-> status_code]

\* the instant the API process starts: after the readings of the earlier
\* run, before the new readings
BootTime == MaxWarm + 1
\* the last instant of the clock: when the new readings are published
LastTime == NewTime
\* values of the start and end query parameters of /readings/: an instant
\* before every reading and the instants of stored readings
Times == {0, LateTime, MaxWarm, LastTime}
\* a request without the end parameter
Omitted == -1

(***************************************************************************)
(* The state the processes start in.  MongoDB and Redis outlive both       *)
(* processes: they hold what an earlier run of the subscriber left after   *)
(* handling the first w messages of the publisher's temperature stream,    *)
(* computed by the handler's own commands.                                 *)
(***************************************************************************)
RECURSIVE WarmStore(_)
WarmStore(n) ==
    IF n = 0 THEN <<>>
    ELSE InsertOne(WarmStore(n - 1),
                   to_bson(SensorReading(JsonLoads(WarmMsg(n).payload), n)))

RECURSIVE WarmList(_)
WarmList(n) ==
    IF n = 0 THEN <<>>
    ELSE LTrim(LPush(WarmList(n - 1), JsonDumps(JsonLoads(WarmMsg(n).payload))),
               0, REDIS_LIMIT - 1)

\* reading["timestamp"] = str(reading["timestamp"])
StrTimestamp(reading) == [reading EXCEPT !.timestamp = StrDatetime(@)]

\* the for loop of a miss repair over cached_readings, run to its end
RECURSIVE RepairList(_, _)
RepairList(list, readings) ==
    IF readings = <<>> THEN list
    ELSE RepairList(LTrim(LPush(list, JsonDumps(StrTimestamp(Head(readings)))),
                          0, REDIS_LIMIT - 1),
                    Tail(readings))

\* the list a last-ten query for sensor left when it found the list empty
\* and the first n readings of the earlier run stored
WarmRepair(sensor, n) ==
    LET docs == CHOOSE d \in FindLatest(WarmStore(n), sensor, REDIS_LIMIT) : TRUE IN
        RepairList(<<>>, [i \in 1..Len(docs) |-> as_response(from_bson(docs[i]))])

\* During the earlier run a last-ten query for temperature may have come
\* after the first reading (early = 1), or none (early = 0).
Init ==
    /\ \E w \in {0, MaxWarm} : \E early \in {0, Min(w, 1)} :
        /\ store = WarmStore(w)
        /\ cache = [k \in Keys |->
                      IF k = REDIS_KEY \o "sensors/temperature" THEN WarmList(w)
                      ELSE IF k = REDIS_PREFIX \o "temperature"
                           THEN WarmRepair("temperature", early)
                           ELSE <<>>]
    /\ cpc = "idle"
    /\ cmsg = NoMsg
    /\ coutcome = "none"
    /\ delivered = 0
    /\ attempts = 0
    /\ requested = 0
    /\ pending = 0
    /\ qsensor = "temperature"
    /\ qpc = "idle"
    /\ qreadings = <<>>
    /\ qi = 0
    /\ qresult = None
    /\ qmiss = FALSE
    /\ qclean = FALSE
    /\ finds = 0
    /\ burstEmpty = FALSE
    /\ serial = TRUE
    /\ failed = FALSE
    /\ now = BootTime
    /\ enddefault = now
    /\ rstart = 0
    /\ rend = Omitted
    /\ rresult = None

(***************************************************************************)
(* The subscriber: on_message, run by loop_forever one message at a time.  *)
(***************************************************************************)
\* a subscriber step ends the quiet period of a running last-ten handler
Disturb ==
    /\ qclean' = FALSE
    /\ serial' = (serial /\ qpc = "idle")
    /\ UNCHANGED rvars

\* a step of a last-ten handler while on_message is between its commands
Overlap ==
    /\ serial' = (serial /\ cpc \in {"idle", "crashed"})
    /\ UNCHANGED rvars

Receive(m) ==
    /\ cpc = "idle"
    /\ delivered < MaxMsgs
    /\ delivered' = delivered + 1
    /\ cmsg' = m

\* json.loads raises JSONDecodeError: logged, on_message returns
OnMessageNotJson(m) ==
    /\ failed' = TRUE
    /\ Receive(m)
    /\ ~IsJson(m.payload)
    /\ cpc' = "idle"
    /\ coutcome' = "json_error"
    /\ attempts' = 0
    /\ Disturb
    /\ UNCHANGED <<store, cache, qvars>>

\* a handler that logs the ValidationError and goes on to the cache push
OnMessageInvalidPushes(m) ==
    /\ failed' = TRUE
    /\ Receive(m)
    /\ IsJson(m.payload)
    /\ ~Validates(JsonLoads(m.payload))
    /\ cpc' = "inserted"
    /\ coutcome' = "running"
    /\ attempts' = 0
    /\ Disturb
    /\ UNCHANGED <<store, cache, qvars>>

\* SensorReading(...) raises ValidationError: no except clause matches, the
\* exception leaves on_message and loop_forever
OnMessageInvalid(m) ==
    /\ failed' = TRUE
    /\ Receive(m)
    /\ IsJson(m.payload)
    /\ ~Validates(JsonLoads(m.payload))
    /\ cpc' = "crashed"
    /\ coutcome' = "validation_error"
    /\ attempts' = 0
    /\ Disturb
    /\ UNCHANGED <<store, cache, qvars>>

\* collection.insert_one(sensor_data.to_bson()) succeeds
OnMessageInsert(m) ==
    /\ UNCHANGED failed
    /\ Receive(m)
    /\ IsJson(m.payload)
    /\ Validates(JsonLoads(m.payload))
    /\ store' = InsertOne(store,
                          to_bson(SensorReading(JsonLoads(m.payload), Len(store) + 1)))
    /\ cpc' = "inserted"
    /\ coutcome' = "running"
    /\ attempts' = 1
    /\ Disturb
    /\ UNCHANGED <<cache, qvars>>

\* a handler that logs the failed insert_one and goes on to the cache push
OnMessageInsertFailsPushes(m) ==
    /\ failed' = TRUE
    /\ Receive(m)
    /\ IsJson(m.payload)
    /\ Validates(JsonLoads(m.payload))
    /\ cpc' = "inserted"
    /\ coutcome' = "running"
    /\ attempts' = 1
    /\ Disturb
    /\ UNCHANGED <<store, cache, qvars>>

\* collection.insert_one raises: no except clause matches
OnMessageInsertFails(m) ==
    /\ failed' = TRUE
    /\ Receive(m)
    /\ IsJson(m.payload)
    /\ Validates(JsonLoads(m.payload))
    /\ cpc' = "crashed"
    /\ coutcome' = "store_error"
    /\ attempts' = 1
    /\ Disturb
    /\ UNCHANGED <<store, cache, qvars>>

\* the key on_message writes: the topic of the MQTT message
SubscriberKey(m) == REDIS_KEY \o m.topic

\* redis_client.lpush(key, json.dumps(data))
OnMessageLPush ==
    /\ UNCHANGED failed
    /\ cpc = "inserted"
    /\ cache' = [cache EXCEPT ![SubscriberKey(cmsg)] =
                    LPush(@, JsonDumps(JsonLoads(cmsg.payload)))]
    /\ cpc' = "pushed"
    /\ Disturb
    /\ UNCHANGED <<store, cmsg, coutcome, delivered, attempts, qvars>>

\* redis_client.ltrim(key, 0, REDIS_LIMIT - 1), then on_message returns
OnMessageLTrim ==
    /\ UNCHANGED failed
    /\ cpc = "pushed"
    /\ cache' = [cache EXCEPT ![SubscriberKey(cmsg)] = LTrim(@, 0, REDIS_LIMIT - 1)]
    /\ cpc' = "idle"
    /\ coutcome' = "ok"
    /\ Disturb
    /\ UNCHANGED <<store, cmsg, delivered, attempts, qvars>>

\* lpush or ltrim raises redis.ConnectionError: no except clause matches
OnMessageCacheFails ==
    /\ failed' = TRUE
    /\ cpc \in {"inserted", "pushed"}
    /\ cpc' = "crashed"
    /\ coutcome' = "cache_error"
    /\ Disturb
    /\ UNCHANGED <<store, cache, cmsg, delivered, attempts, qvars>>

(***************************************************************************)
(* The API process.  uvicorn.run(app) serves every request on one event    *)
(* loop, and get_last_ten_readings is an async def that never awaits: the  *)
(* handlers of concurrent requests run one after the other, each to its    *)
(* end, while its Redis and MongoDB commands interleave with the           *)
(* subscriber's.                                                           *)
(***************************************************************************)
ApiKey(sensor) == REDIS_PREFIX \o sensor

\* MaxRequests requests for the same sensor arrive together and queue on the
\* event loop
Requests(sensor) ==
    /\ UNCHANGED serial
    /\ UNCHANGED failed
    /\ pending = 0
    /\ qpc = "idle"
    /\ requested = 0
    /\ requested' = MaxRequests
    /\ pending' = MaxRequests
    /\ qsensor' = sensor
    /\ finds' = 0
    /\ burstEmpty' = (cache[ApiKey(sensor)] = <<>>)
    /\ UNCHANGED <<store, cache, cvars, qpc, qreadings, qi, qresult, qmiss, qclean, rvars>>

\* a handler that takes every Range read for a miss and goes on to the find
LastTenLRangeAlwaysMiss ==
    /\ Overlap
    /\ UNCHANGED failed
    /\ pending > 0
    /\ qpc = "idle"
    /\ qpc' = "miss"
    /\ qmiss' = TRUE
    /\ qresult' = None
    /\ qclean' = (cpc \in {"idle", "crashed"})
    /\ qreadings' = <<>>
    /\ qi' = 0
    /\ UNCHANGED <<store, cache, cvars, requested, pending, qsensor, finds, burstEmpty>>

\* a handler that takes a list shorter than REDIS_LIMIT for a miss too
LastTenLRangeTopsUp ==
    /\ Overlap
    /\ UNCHANGED failed
    /\ pending > 0
    /\ qpc = "idle"
    /\ LET cached == LRange(cache[ApiKey(qsensor)], 0, REDIS_LIMIT - 1) IN
        IF Len(cached) < REDIS_LIMIT
        THEN /\ qpc' = "miss"
             /\ qmiss' = TRUE
             /\ qresult' = None
        ELSE /\ qpc' = "done"
             /\ qmiss' = FALSE
             /\ qresult' = Returned([i \in 1..Len(cached) |-> JsonLoads(cached[i])])
    /\ qclean' = (cpc \in {"idle", "crashed"})
    /\ qreadings' = <<>>
    /\ qi' = 0
    /\ UNCHANGED <<store, cache, cvars, requested, pending, qsensor, finds, burstEmpty>>

\* cached_readings = redis_client.lrange(redis_key, 0, REDIS_LIMIT - 1) and the
\* test of it; on a hit the handler returns [json.loads(obj) for obj in ...]
LastTenLRange ==
    /\ Overlap
    /\ UNCHANGED failed
    /\ pending > 0
    /\ qpc = "idle"
    /\ LET cached == LRange(cache[ApiKey(qsensor)], 0, REDIS_LIMIT - 1) IN
        IF cached = <<>>
        THEN /\ qpc' = "miss"
             /\ qmiss' = TRUE
             /\ qresult' = None
        ELSE /\ qpc' = "done"
             /\ qmiss' = FALSE
             /\ qresult' = Returned([i \in 1..Len(cached) |-> JsonLoads(cached[i])])
    /\ qclean' = (cpc \in {"idle", "crashed"})
    /\ qreadings' = <<>>
    /\ qi' = 0
    /\ UNCHANGED <<store, cache, cvars, requested, pending, qsensor, finds, burstEmpty>>

\* a raise inside the outer try: logged by the outer except, which returns
\* nothing (the HTTPException of the inner except is caught there too)
HandlerSwallows ==
    /\ Overlap
    /\ failed' = TRUE
    /\ qpc' = "done"
    /\ qresult' = None
    /\ qreadings' = <<>>
    /\ qi' = 0
    /\ UNCHANGED <<store, cache, cvars, requested, pending, qsensor, qclean, burstEmpty>>

\* redis_client.lrange raises
LastTenLRangeFails ==
    /\ pending > 0
    /\ qpc = "idle"
    /\ qmiss' = FALSE
    /\ HandlerSwallows
    /\ UNCHANGED finds

\* collection.find({"topic": sensor}).sort("timestamp", -1).limit(REDIS_LIMIT),
\* read by the list comprehension into as_response() dicts
LastTenFind ==
    /\ Overlap
    /\ UNCHANGED failed
    /\ qpc = "miss"
    /\ finds' = finds + 1
    /\ \E docs \in FindLatest(store, qsensor, REDIS_LIMIT) :
        /\ qreadings' = [i \in 1..Len(docs) |-> as_response(from_bson(docs[i]))]
        /\ IF docs = <<>>
           THEN /\ qpc' = "done"
                /\ qresult' = Returned(<<>>)
                /\ qi' = 0
           ELSE /\ qpc' = "push"
                /\ qresult' = None
                /\ qi' = 1
    /\ UNCHANGED <<store, cache, cvars, requested, pending, qsensor, qmiss, qclean, burstEmpty>>

\* collection.find raises
LastTenFindFails ==
    /\ qpc = "miss"
    /\ finds' = finds + 1
    /\ HandlerSwallows
    /\ UNCHANGED qmiss

\* in the for loop: the timestamp becomes a string and
\* redis_client.lpush(redis_key, json.dumps(reading))
LastTenLPush ==
    /\ Overlap
    /\ UNCHANGED failed
    /\ qpc = "push"
    /\ LET reading == StrTimestamp(qreadings[qi]) IN
        /\ qreadings' = [qreadings EXCEPT ![qi] = reading]
        /\ cache' = [cache EXCEPT ![ApiKey(qsensor)] = LPush(@, JsonDumps(reading))]
    /\ qpc' = "trim"
    /\ UNCHANGED <<store, cvars, requested, pending, qsensor, qi, qresult, qmiss, qclean,
                   finds, burstEmpty>>

\* redis_client.ltrim(redis_key, 0, REDIS_LIMIT - 1); after the last reading
\* the handler returns cached_readings
LastTenLTrim ==
    /\ Overlap
    /\ UNCHANGED failed
    /\ qpc = "trim"
    /\ cache' = [cache EXCEPT ![ApiKey(qsensor)] = LTrim(@, 0, REDIS_LIMIT - 1)]
    /\ IF qi = Len(qreadings)
       THEN /\ qpc' = "done"
            /\ qresult' = Returned(qreadings)
            /\ qi' = qi
       ELSE /\ qpc' = "push"
            /\ qresult' = qresult
            /\ qi' = qi + 1
    /\ UNCHANGED <<store, cvars, requested, pending, qsensor, qreadings, qmiss, qclean,
                   finds, burstEmpty>>

\* lpush or ltrim raises in the for loop: Redis is lost while the first
\* reading is written
LastTenCacheFails ==
    /\ qpc \in {"push", "trim"}
    /\ qi = 1
    /\ HandlerSwallows
    /\ UNCHANGED <<qmiss, finds>>

\* the response is sent; the event loop runs the next handler of the burst
LastTenReturn ==
    /\ UNCHANGED serial
    /\ UNCHANGED failed
    /\ qpc = "done"
    /\ pending' = pending - 1
    /\ qpc' = "idle"
    /\ qreadings' = <<>>
    /\ qi' = 0
    /\ qresult' = None
    /\ qmiss' = FALSE
    /\ qclean' = FALSE
    /\ UNCHANGED <<store, cache, cvars, requested, qsensor, finds, burstEmpty, rvars>>

Next ==
    \/ \E m \in Messages : OnMessageNotJson(m)
    \/ \E m \in Messages : OnMessageInvalid(m)
    \/ \E m \in Messages : OnMessageInsert(m)
    \/ \E m \in Messages : OnMessageInsertFails(m)
    \/ OnMessageLPush
    \/ OnMessageLTrim
    \/ OnMessageCacheFails
    \/ \E sensor \in Sensors : Requests(sensor)
    \/ LastTenLRange
    \/ LastTenLRangeFails
    \/ LastTenFind
    \/ LastTenFindFails
    \/ LastTenLPush
    \/ LastTenLTrim
    \/ LastTenCacheFails
    \/ LastTenReturn

Spec == Init /\ [][Next]_vars

(***************************************************************************)
(* The time-range endpoint of the API process, get_sensor_readings, with   *)
(* the subscriber storing the readings that have been published.  The      *)
(* handler sends MongoDB one command, the find its list comprehension      *)
(* reads, so a request is one step.                                        *)
(***************************************************************************)
\* the clock advances
Tick ==
    /\ now < LastTime
    /\ now' = now + 1
    /\ UNCHANGED <<store, cache, cvars, qvars, qclean, serial, failed,
                   enddefault, rstart, rend, rresult>>

\* the valid messages published so far: the publisher stamps a reading with
\* utcnow() when it sends it
Published ==
    {m \in Messages :
        /\ IsJson(m.payload)
        /\ Validates(JsonLoads(m.payload))
        /\ ParseDatetime(JsonLoads(m.payload).timestamp) <= now}

\* the end parameter the handler runs with: the default was evaluated once,
\* when the def statement ran at the start of the process
EndParameter(end) == IF end = Omitted THEN enddefault ELSE end

\* GET /readings/?start=..[&end=..]: the find and the list comprehension
GetSensorReadings(start, end) ==
    /\ rstart' = start
    /\ rend' = end
    /\ LET readings == FindRange(store, start, EndParameter(end)) IN
        rresult' = Returned([i \in 1..Len(readings) |->
                                as_response(from_bson(readings[i]))])
    /\ UNCHANGED <<store, cache, cvars, qvars, qclean, serial, failed, now, enddefault>>

\* the find raises: logged, then raise HTTPException(status_code=500)
GetSensorReadingsFails(start, end) ==
    /\ rstart' = start
    /\ rend' = end
    /\ rresult' = HTTPException(500)
    /\ failed' = TRUE
    /\ UNCHANGED <<store, cache, cvars, qvars, qclean, serial, now, enddefault>>

NextRange ==
    \/ Tick
    \/ \E m \in Published : OnMessageInsert(m)
    \/ OnMessageLPush
    \/ OnMessageLTrim
    \/ \E start \in Times, end \in Times \cup {Omitted} : GetSensorReadings(start, end)
    \/ \E start \in Times, end \in Times \cup {Omitted} : GetSensorReadingsFails(start, end)

SpecRange == Init /\ [][NextRange]_vars

(***************************************************************************)
(* Properties.                                                             *)
(***************************************************************************)
\* a cache entry, as the dict json.loads gives
EntrySensor(e) == IF "sensor_id" \in DOMAIN e THEN e.sensor_id ELSE e.sensorId
EntryTime(e) == ParseDatetime(e.timestamp)

\* what a cache entry and a stored document have in common; an entry the
\* subscriber pushed carries no id
Content(sensor, topic, value, t) == <<sensor, topic, value, t>>
EntryContent(e) == Content(EntrySensor(e), e.topic, e.value, EntryTime(e))
DocContent(doc) == Content(doc.sensorId, doc.topic, doc.value, doc.timestamp)

\* the cache entry e is a copy of the stored document doc
Corresponds(e, doc) ==
    /\ EntryContent(e) = DocContent(doc)
    /\ ("id" \in DOMAIN e => e.id = doc._id)

Range(key) == LRange(cache[key], 0, REDIS_LIMIT - 1)

\* C1: every entry of every cache list is a copy of a document that is
\* already in the durable store.
C1_CacheEntriesAreStored ==
    LET plain == {DocContent(store[j]) : j \in 1..Len(store)}
        withId == {<<store[j]._id, DocContent(store[j])>> : j \in 1..Len(store)}
    IN \A k \in Keys : \A i \in 1..Len(cache[k]) :
        LET e == JsonLoads(cache[k][i]) IN
            IF "id" \in DOMAIN e
            THEN <<e.id, EntryContent(e)>> \in withId
            ELSE EntryContent(e) \in plain

\* C1 witness: the subscriber has pushed a new reading and a miss repair has
\* filled a cache list from the store.
C1_Witness ==
    /\ coutcome = "ok"
    /\ qpc = "done" /\ qmiss /\ qresult.status = "ok"
    /\ qresult.body # <<>>
    /\ cache[ApiKey(qsensor)] # <<>>

\* the number of stored readings of a topic
Stored(topic) == Cardinality(Matching(store, topic))

\* the number of elements of a sequence of dicts with instant t
CountAt(body, t) == Cardinality({i \in 1..Len(body) : EntryTime(body[i]) = t})

\* body holds the min(n, M) most recent of the M stored readings of topic
IsLatest(body, topic, n) ==
    /\ Len(body) = Min(n, Stored(topic))
    /\ \A i \in 1..Len(body) : body[i].topic = topic
    /\ \A top \in FindLatest(store, topic, n) :
        \A i \in 1..Len(top) :
            CountAt(body, top[i].timestamp) =
                Cardinality({j \in 1..Len(top) : top[j].timestamp = top[i].timestamp})

\* C2: with no ingestion or repair under way and no failure, a last-ten query
\* returns the min(K, M) most recent stored readings of its topic.
C2_Orig ==
    (qpc = "done" /\ qclean /\ serial /\ ~failed /\ qresult.status = "ok")
        => IsLatest(qresult.body, qsensor, REDIS_LIMIT)

\* the positions of a list that hold a copy of the reading with this payload
PositionsOf(list, data) ==
    {i \in 1..Len(list) :
        LET e == JsonLoads(list[i]) IN
            /\ e.topic = data.topic
            /\ e.value = data.value
            /\ EntryTime(e) = ParseDatetime(data.timestamp)
            /\ EntrySensor(e) = data.sensor_id}

\* C3: once on_message has inserted a reading and finished its cache push,
\* the list the API reads for the reading's topic holds the reading, no older
\* entry ahead of it and no newer entry behind it.
C3_Orig ==
    (cpc = "idle" /\ coutcome = "ok") =>
        LET data == JsonLoads(cmsg.payload)
            list == Range(ApiKey(data.topic))
        IN \E i \in PositionsOf(list, data) :
            /\ \A j \in 1..(i - 1) : EntryTime(JsonLoads(list[j])) >= EntryTime(data)
            /\ \A j \in (i + 1)..Len(list) : EntryTime(JsonLoads(list[j])) <= EntryTime(data)

\* C4: after a miss repair that ran with no other writer, the repaired list,
\* read with Range, has at most K entries and no entry ahead of a newer one.
C4_Orig ==
    (qpc = "done" /\ qmiss /\ qclean /\ qresult.status = "ok") =>
        LET list == Range(ApiKey(qsensor)) IN
            /\ Len(list) <= REDIS_LIMIT
            /\ \A i, j \in 1..Len(list) :
                i < j => EntryTime(JsonLoads(list[i])) >= EntryTime(JsonLoads(list[j]))

\* C5: no cache list is ever longer than K, also between the commands of a push.
C5_Orig == \A k \in Keys : Len(cache[k]) <= REDIS_LIMIT

\* the dicts of a sequence, as a set
Elems(seq) == {seq[i] : i \in 1..Len(seq)}

\* C6: a last-ten query that finds the cache list of its topic empty, with no
\* writer at work, returns the min(K, M) most recent stored readings of the
\* topic, newest first, and leaves exactly these readings in the cache list.
C6_CacheAside ==
    (qpc = "done" /\ qmiss /\ qclean /\ qresult.status = "ok") =>
        LET body == qresult.body IN
            /\ IsLatest(body, qsensor, REDIS_LIMIT)
            /\ \A i, j \in 1..Len(body) :
                i < j => /\ EntryTime(body[i]) >= EntryTime(body[j])
                         /\ body[i].id # body[j].id
            /\ \A i \in 1..Len(body) :
                \E d \in Matching(store, qsensor) : Corresponds(body[i], store[d])
            /\ Len(Range(ApiKey(qsensor))) = Len(body)
            /\ {JsonLoads(x) : x \in Elems(Range(ApiKey(qsensor)))} = Elems(body)

\* C6 witness: a clean miss on a topic with more than K stored readings
\* returned K of them.
C6_Witness ==
    /\ qpc = "done" /\ qmiss /\ qclean /\ qresult.status = "ok"
    /\ Stored(qsensor) > REDIS_LIMIT
    /\ Len(qresult.body) = REDIS_LIMIT

\* C7: the requests of a burst that arrives at an empty cache list make at
\* most one find call between them, and exactly one when nothing else has
\* written the cache.
C7_Orig ==
    (burstEmpty /\ ~failed) => /\ finds <= 1
                               /\ (pending = 0 /\ delivered = 0 => finds = 1)

\* a payload that is not JSON or lacks a required field
Malformed(m) ==
    \/ ~IsJson(m.payload)
    \/ \E f \in {"sensor_id", "topic", "value", "timestamp"} :
        f \notin DOMAIN JsonLoads(m.payload)

\* C8: no step of on_message on a malformed message changes the durable
\* store or a cache list.
C8_MalformedDropped ==
    [][(cvars' # cvars /\ Malformed(cmsg')) => (store' = store /\ cache' = cache)]_vars

\* C8 witness: a message lacking required fields has been handled after an
\* earlier message.
C8_Witness ==
    /\ delivered > 1
    /\ Malformed(cmsg)
    /\ IsJson(cmsg.payload)
    /\ coutcome = "validation_error"

\* C9: after a malformed message the subscriber is still running.
C9_Orig == (delivered > 0 /\ Malformed(cmsg)) => cpc # "crashed"

\* C10: on_message gives up on a failed insert only after retrying it.
C10_Orig == coutcome = "store_error" => attempts > 1

\* C11: a cache push that fails during ingestion leaves the inserted reading
\* in the store and the subscriber running.
C11_Orig ==
    coutcome = "cache_error" =>
        /\ cpc # "crashed"
        /\ \E j \in 1..Len(store) :
            DocContent(store[j]) = EntryContent(JsonLoads(cmsg.payload))

\* C13: when the Range read of a last-ten query fails, the handler goes on to
\* the durable-store path, or has returned the min(K, M) most recent stored
\* readings of the topic.
C13_Orig ==
    [][LastTenLRangeFails =>
        \/ qpc' = "miss"
        \/ /\ qresult'.status = "ok"
           /\ IsLatest(qresult'.body, qsensor', REDIS_LIMIT)]_vars

\* C12: when the find of a last-ten query fails, the handler ends the way
\* get_sensor_readings ends a failed find: by raising HTTPException(500),
\* not by returning without a body.
C12_Orig == [][LastTenFindFails => qresult' = HTTPException(500)]_vars

\* the positions of the documents whose timestamp t has start <= t <= end
InRange(coll, start, end) ==
    {j \in 1..Len(coll) : start <= coll[j].timestamp /\ coll[j].timestamp <= end}

\* the response dict is the stored document
SameReading(reading, doc) ==
    /\ reading.id = doc._id
    /\ reading.sensorId = doc.sensorId
    /\ reading.topic = doc.topic
    /\ reading.value = doc.value
    /\ reading.timestamp = doc.timestamp

\* body holds every document of coll with start <= t <= end once, and
\* nothing else
ExactlyRange(body, coll, start, end) ==
    /\ Len(body) = Cardinality(InRange(coll, start, end))
    /\ \A j \in InRange(coll, start, end) :
        \E i \in 1..Len(body) : SameReading(body[i], coll[j])
    /\ \A i \in 1..Len(body) :
        /\ start <= body[i].timestamp
        /\ body[i].timestamp <= end
        /\ \E j \in 1..Len(coll) : SameReading(body[i], coll[j])

\* C14: a time-range query with bounds start and end returns exactly the
\* stored readings whose timestamp t has start <= t <= end, whatever the
\* store holds and whatever the bounds are.
C14_InclusiveRange ==
    [][\A start \in Times, end \in Times :
        GetSensorReadings(start, end) =>
            /\ rresult'.status = "ok"
            /\ ExactlyRange(rresult'.body, store, start, end)]_vars

\* C14 witness: a query whose bounds are the instants of two stored readings,
\* over a store with readings before, at, between and after them, returned
\* the readings from the first to the second.
C14_Witness ==
    /\ rresult.status = "ok"
    /\ rend # Omitted
    /\ rstart < rend
    /\ \E j \in 1..Len(store) : store[j].timestamp < rstart
    /\ \E j \in 1..Len(store) : store[j].timestamp > rend
    /\ \E i \in 1..Len(rresult.body) : rresult.body[i].timestamp = rstart
    /\ \E i \in 1..Len(rresult.body) : rresult.body[i].timestamp = rend
    /\ Len(rresult.body) > 2
    /\ ExactlyRange(rresult.body, store, rstart, rend)

\* C15: a time-range query without end returns every reading stored before
\* the request whose timestamp t has start <= t <= the time of the request.
C15_Orig ==
    [][\A start \in Times :
        GetSensorReadings(start, Omitted) =>
            /\ rresult'.status = "ok"
            /\ \A j \in InRange(store, start, now) :
                \E i \in 1..Len(rresult'.body) : SameReading(rresult'.body[i], store[j])]_vars

\* Of the entries of list from position i on, those on_message pushed
\* (json.dumps(data) of a payload has no id) are readings stored at
\* positions a, a - 1, .. 1 of the store, each stored before the entry ahead
\* of it in the list.  insert_one stores the readings in the order the
\* messages arrive.
RECURSIVE InArrivalOrder(_, _, _)
InArrivalOrder(list, i, a) ==
    IF i > Len(list) THEN TRUE
    ELSE IF "id" \in DOMAIN JsonLoads(list[i]) THEN InArrivalOrder(list, i + 1, a)
    ELSE IF a = 0 THEN FALSE
    ELSE IF DocContent(store[a]) = EntryContent(JsonLoads(list[i]))
         THEN InArrivalOrder(list, i + 1, a - 1)
         ELSE InArrivalOrder(list, i, a - 1)

\* C16: on_message takes a message only after the cache push of the message
\* before it has completed, and the readings it pushed into a list sit there
\* in the order they arrived, a later one nearer the head than an earlier one.
C16_ArrivalOrder ==
    /\ [](\A topic \in SUBSCRIBED : InArrivalOrder(cache[REDIS_KEY \o topic], 1, Len(store)))
    /\ [][delivered' # delivered => cpc = "idle"]_vars

\* C16 witness: two different messages of one topic have been handled with
\* success, one after the other, and both are in the list.
C16_Witness ==
    /\ delivered = 2
    /\ cpc = "idle"
    /\ coutcome = "ok"
    /\ Len(store) = 2
    /\ DocContent(store[1]) # DocContent(store[2])
    /\ Len(cache[SubscriberKey(cmsg)]) = 2
    /\ EntryContent(JsonLoads(cache[SubscriberKey(cmsg)][1])) = DocContent(store[2])
    /\ EntryContent(JsonLoads(cache[SubscriberKey(cmsg)][2])) = DocContent(store[1])

\* the number of entries of a list that are copies of a reading with the
\* content of entry e, and the number of stored readings with that content
CopiesInList(list, e) ==
    Cardinality({i \in 1..Len(list) : EntryContent(JsonLoads(list[i])) = EntryContent(e)})
CopiesInStore(e) ==
    Cardinality({j \in 1..Len(store) : DocContent(store[j]) = EntryContent(e)})

\* C17: no cache list holds a stored reading twice: the copies of a reading
\* in a list are no more than the stored readings they can be copies of,
\* and no two entries of a list carry the same id.
C17_Orig ==
    \A k \in Keys : \A i \in 1..Len(cache[k]) :
        LET e == JsonLoads(cache[k][i]) IN
            /\ CopiesInList(cache[k], e) <= CopiesInStore(e)
            /\ \A j \in 1..Len(cache[k]) :
                (j # i /\ "id" \in DOMAIN e /\ "id" \in DOMAIN JsonLoads(cache[k][j]))
                    => JsonLoads(cache[k][j]).id # e.id

\* C18: a last-ten query whose Range read finds the list not empty returns
\* the entries the read gave, in list order, makes no find call, and leaves
\* the store and every cache list as they were.
C18_HitFrame ==
    [][(LastTenLRange /\ cache[ApiKey(qsensor)] # <<>>) =>
        /\ qpc' = "done"
        /\ qresult'.status = "ok"
        /\ Len(qresult'.body) = Len(Range(ApiKey(qsensor)))
        /\ \A i \in 1..Len(qresult'.body) :
            JsonDumps(qresult'.body[i]) = cache[ApiKey(qsensor)][i]
        /\ finds' = finds
        /\ store' = store
        /\ cache' = cache]_vars

\* C18 witness: a query has returned the entries of a list of two or more
\* straight from its Range read.
C18_Witness ==
    /\ qpc = "done"
    /\ ~qmiss
    /\ qresult.status = "ok"
    /\ Len(qresult.body) >= 2
    /\ Len(qresult.body) = Len(Range(ApiKey(qsensor)))
    /\ \A i \in 1..Len(qresult.body) :
        JsonDumps(qresult.body[i]) = cache[ApiKey(qsensor)][i]
    /\ store # <<>>

\* the keys of a serialized SensorReading: model_dump(by_alias=True)
WireFields == {"id", "sensorId", "topic", "value", "timestamp"}

\* C19: every push, by on_message or by a miss repair, puts at the head of
\* the list a serialized reading with the fields id, sensorId, topic, value
\* and timestamp.
C19_Orig ==
    [][\A k \in Keys :
        (cache'[k] # cache[k] /\ cache'[k] # <<>>) =>
            DOMAIN JsonLoads(Head(cache'[k])) = WireFields]_vars

\* C20: a last-ten query takes the miss path if and only if its Range read
\* finds the list empty; only on that path is the store queried and a cache
\* list written by the handler, and there the find is always made.  A list
\* that is not empty is returned as it is and not changed, however short it
\* is and however many readings are stored.  A miss whose find returns
\* nothing returns an empty list and writes no cache list.
C20_RepairOnlyOnEmpty ==
    [][/\ LastTenLRange => (qpc' = "miss" <=> cache[ApiKey(qsensor)] = <<>>)
       /\ (LastTenLRange /\ cache[ApiKey(qsensor)] # <<>>) =>
            /\ qresult' = Returned([i \in 1..Len(Range(ApiKey(qsensor))) |->
                                        JsonLoads(cache[ApiKey(qsensor)][i])])
            /\ cache' = cache
       /\ finds' # finds => qpc = "miss"
       /\ (cache' # cache /\ cvars' = cvars) => (qmiss /\ qpc \in {"push", "trim"})
       /\ (qpc = "miss" /\ qpc' # "miss") => finds' = finds + 1
       /\ (LastTenFind /\ Stored(qsensor) = 0) =>
            /\ qpc' = "done"
            /\ qresult' = Returned(<<>>)
            /\ cache' = cache
       /\ (LastTenFind /\ Stored(qsensor) > 0) => qpc' = "push"]_vars

\* C20 witness: the first query of a burst found a list of fewer than K
\* entries while K or more readings of the topic were stored, and returned
\* the list without a find call.
C20_Witness ==
    /\ qpc = "done"
    /\ ~qmiss
    /\ qresult.status = "ok"
    /\ Len(qresult.body) \in 1..(REDIS_LIMIT - 1)
    /\ Stored(qsensor) >= REDIS_LIMIT
    /\ finds = 0
    /\ Len(cache[ApiKey(qsensor)]) = Len(qresult.body)

====
